---- MODULE Spec2Model ----
(***************************************************************************)
(* senlib: the polling loop of senlib/cli.py (Application._start and its   *)
(* callback, SenlibCLI and SensorNode _handle_data, Application.run) and   *)
(* the BME280 driver of senlib/i2c/sensors/bmex.py (calibration decoding,  *)
(* compensation, the public read operations).                              *)
(***************************************************************************)
EXTENDS Integers, Sequences, FiniteSets, TLC

(***************************************************************************)
(* Bounds of the model.                                                    *)
(***************************************************************************)
\* largest finite --poll value tried
MaxPoll == 3
\* cap on the cycles of an unbounded polling loop
MaxCycles == 4
\* cap on the raw samples one BME280 object reads
MaxSamples == 3

VARIABLES
    \* ---- cli.py: configuration fixed by the constructors
    app,        \* "cli" (SenlibCLI) or "node" (SensorNode)
    poll,       \* self._args.poll
    webserver,  \* how self._webserver.broadcast behaves: "ok" or "raise"
    publisher,  \* self._publisher: "none" (not configured), "ok" or "raise"
    \* ---- cli.py: the event loop and the running callback
    loop,       \* "Idle", "Running", "Stopped"
    ready,      \* handles scheduled by call_soon/call_later: the num of each
    pc,         \* where the running callback is ("none": no callback runs)
    num,        \* the num argument of the running (or last) callback
    busReads,   \* block reads of _read_raw_sensor_data done by this measure()
    \* ---- cli.py: history
    started,    \* number of measure() calls begun
    acquired,   \* ids of the measurements measure() returned, in order
    handed,     \* ids passed to _handle_data, in order
    printed,    \* ids printed by SenlibCLI._generate_output
    webGot,     \* ids the web sink received
    mqttGot,    \* ids the MQTT sink received
    failed,     \* cycles whose measure() raised
    sinkFailed, \* cycles whose _handle_data raised
    reported,   \* exceptions handed to the loop's exception handler
    doneCycles, \* callbacks that ran to their last statement
    stoppedBy,  \* what left run_forever: "none", "stop", "interrupt"
    afterStop,  \* _after_stop has run
    \* ---- bmex.py: the device and the BME280 object
    dev88,      \* the device's registers 0x88..0xA1 (26 bytes)
    devE1,      \* the device's registers 0xE1..0xE7 (7 bytes)
    devCfg,     \* the device's registers ctrl_hum, ctrl_meas and config
    bme,        \* the BME280 object ("none" before construction)
    samples,    \* number of _read_raw_sensor_data calls so far
    call        \* the last operation: its name, compensations run, result

schedVars == <<app, poll, webserver, publisher, loop, ready, pc, num, busReads,
               started, acquired, handed, printed, webGot, mqttGot, failed,
               sinkFailed, reported, doneCycles, stoppedBy, afterStop>>

drvVars == <<dev88, devE1, devCfg, bme, samples, call>>

vars == <<schedVars, drvVars>>

(***************************************************************************)
(* Numbers.  The driver computes in IEEE doubles; the model keeps a value  *)
(* exactly, as m * 2^x / d with m and d odd and coprime (zero is 0*2^0/1). *)
(* A float operation whose exact result is a double yields that double,    *)
(* and the inputs of the model are chosen so that m and d stay in range.   *)
(***************************************************************************)
Abs(n) == IF n < 0 THEN 0 - n ELSE n

Min(a, b) == IF a < b THEN a ELSE b

Max(a, b) == IF a < b THEN b ELSE a

RECURSIVE GCD(_, _)
GCD(a, b) == IF b = 0 THEN a ELSE GCD(b, a % b)

RECURSIVE StripTwos(_, _, _)
StripTwos(m, x, d) ==
    IF m % 2 = 0 THEN StripTwos(m \div 2, x + 1, d)
    ELSE [m |-> m, x |-> x, d |-> d]

Zero == [m |-> 0, x |-> 0, d |-> 1]

Num(m, x, d) ==
    IF m = 0 THEN Zero
    ELSE LET g == GCD(Abs(m), d) IN StripTwos(m \div g, x, d \div g)

FromInt(n) == Num(n, 0, 1)

\* 2.0 ** k
Pow2(k) == [m |-> 1, x |-> k, d |-> 1]

IsZero(a) == a.m = 0

FNeg(a) == [m |-> 0 - a.m, x |-> a.x, d |-> a.d]

FAdd(a, b) ==
    IF IsZero(a) THEN b
    ELSE IF IsZero(b) THEN a
    ELSE LET x == Min(a.x, b.x)
         IN Num(a.m * b.d * 2^(a.x - x) + b.m * a.d * 2^(b.x - x), x, a.d * b.d)

FSub(a, b) == FAdd(a, FNeg(b))

FMul(a, b) == Num(a.m * b.m, a.x + b.x, a.d * b.d)

\* a / b for b # 0
FDiv(a, b) ==
    Num(a.m * b.d * (IF b.m < 0 THEN 0 - 1 ELSE 1), a.x - b.x, a.d * Abs(b.m))

FLess(a, b) ==
    LET x == Min(a.x, b.x)
    IN a.m * b.d * 2^(a.x - x) < b.m * a.d * 2^(b.x - x)

\* int(a): truncation toward zero
FTrunc(a) ==
    LET n == IF a.x >= 0 THEN Abs(a.m) * 2^(a.x) ELSE Abs(a.m)
        q == IF a.x >= 0 THEN a.d ELSE a.d * 2^(0 - a.x)
    IN (IF a.m < 0 THEN 0 - 1 ELSE 1) * (n \div q)

(***************************************************************************)
(* Python's integer operators, on the two's complement of its operands     *)
(* (24 bits hold every operand the driver forms).                          *)
(***************************************************************************)
RECURSIVE BitAndN(_, _)
BitAndN(a, b) ==
    IF a = 0 \/ b = 0 THEN 0
    ELSE (a % 2) * (b % 2) + 2 * BitAndN(a \div 2, b \div 2)

RECURSIVE BitOrN(_, _)
BitOrN(a, b) ==
    IF a = 0 THEN b
    ELSE IF b = 0 THEN a
    ELSE Max(a % 2, b % 2) + 2 * BitOrN(a \div 2, b \div 2)

Wrap(u) == IF u >= 2^23 THEN u - 2^24 ELSE u

BitOr(a, b) == Wrap(BitOrN(a % 2^24, b % 2^24))

BitAnd(a, b) == Wrap(BitAndN(a % 2^24, b % 2^24))

ShiftL(a, k) == a * 2^k

ShiftR(a, k) == a \div 2^k

(***************************************************************************)
(* BME280._read_calibration_data                                           *)
(***************************************************************************)
\* struct.unpack formats '<H', '<h', 'B', '<b'
Unpack_H(lo, hi) == lo + 256 * hi

Unpack_h(lo, hi) ==
    LET u == lo + 256 * hi IN IF u >= 32768 THEN u - 65536 ELSE u

Unpack_B(b) == b

Unpack_b(b) == IF b >= 128 THEN b - 256 ELSE b

\* dig_H4 without the mask of the shared byte
DigH4NoMask(e1) == BitOr(ShiftL(Unpack_b(e1[4]), 4), e1[5])

\* dig_H4 = (e4_sign << 4) | (dig_e1_e7[4] & 0xF)
DigH4(e1) == BitOr(ShiftL(Unpack_b(e1[4]), 4), BitAnd(e1[5], 15))

\* dig_H5 = (e6_sign << 4) | (dig_e1_e7[4] >> 4)
DigH5(e1) == BitOr(ShiftL(Unpack_b(e1[6]), 4), ShiftR(e1[5], 4))

ReadCalibrationData(b88, e1) ==
    [dig_T1 |-> Unpack_H(b88[1], b88[2]),
     dig_T2 |-> Unpack_h(b88[3], b88[4]),
     dig_T3 |-> Unpack_h(b88[5], b88[6]),
     dig_P1 |-> Unpack_H(b88[7], b88[8]),
     dig_P2 |-> Unpack_h(b88[9], b88[10]),
     dig_P3 |-> Unpack_h(b88[11], b88[12]),
     dig_P4 |-> Unpack_h(b88[13], b88[14]),
     dig_P5 |-> Unpack_h(b88[15], b88[16]),
     dig_P6 |-> Unpack_h(b88[17], b88[18]),
     dig_P7 |-> Unpack_h(b88[19], b88[20]),
     dig_P8 |-> Unpack_h(b88[21], b88[22]),
     dig_P9 |-> Unpack_h(b88[23], b88[24]),
     dig_H1 |-> Unpack_B(b88[26]),
     dig_H2 |-> Unpack_h(e1[1], e1[2]),
     dig_H3 |-> Unpack_B(e1[3]),
     dig_H4 |-> DigH4(e1),
     dig_H5 |-> DigH5(e1),
     dig_H6 |-> Unpack_b(e1[7])]

(***************************************************************************)
(* BME280._read_raw_sensor_data: the eight bytes of the three block reads  *)
(* (0xF7..0xF9, 0xFA..0xFC, 0xFD..0xFE) give adc_p, adc_t, adc_h.          *)
(***************************************************************************)
ReadRawSensorData(b) ==
    [adc_p |-> BitOr(BitOr(ShiftL(b[1], 12), ShiftL(b[2], 4)), ShiftR(b[3], 4)),
     adc_t |-> BitOr(BitOr(ShiftL(b[4], 12), ShiftL(b[5], 4)), ShiftR(b[6], 4)),
     adc_h |-> BitOr(ShiftL(b[7], 8), b[8])]

(***************************************************************************)
(* The compensation functions.  Each takes the calibration and t_fine it   *)
(* reads from self as arguments.                                           *)
(***************************************************************************)
\* _compensate_temperature: the new self.t_fine and the value returned
CompensateTemperature(c, adc_t) ==
    LET UT == FromInt(adc_t)
        T1 == FromInt(c.dig_T1)
        var1 == FMul(FSub(FDiv(UT, FromInt(16384)), FDiv(T1, FromInt(1024))),
                     FromInt(c.dig_T2))
        u == FSub(FDiv(UT, FromInt(131072)), FDiv(T1, FromInt(8192)))
        var2 == FMul(FMul(u, u), FromInt(c.dig_T3))
    IN [t_fine |-> FTrunc(FAdd(var1, var2)),
        temp |-> FDiv(FAdd(var1, var2), FromInt(5120))]

\* the normalization factor: var1 of line 130
PressureVar1(c, tf) ==
    LET v1 == FSub(FDiv(FromInt(tf), FromInt(2)), FromInt(64000))
        a == FDiv(FMul(FMul(FromInt(c.dig_P3), v1), v1), FromInt(524288))
        b == FMul(FromInt(c.dig_P2), v1)
        v1b == FDiv(FAdd(a, b), FromInt(524288))
    IN FMul(FAdd(FromInt(1), FDiv(v1b, FromInt(32768))), FromInt(c.dig_P1))

\* var2 of line 127
PressureVar2(c, tf) ==
    LET v1 == FSub(FDiv(FromInt(tf), FromInt(2)), FromInt(64000))
        a == FDiv(FMul(FMul(v1, v1), FromInt(c.dig_P6)), FromInt(32768))
        b == FAdd(a, FMul(FMul(v1, FromInt(c.dig_P5)), FromInt(2)))
    IN FAdd(FDiv(b, FromInt(4)), FMul(FromInt(c.dig_P4), FromInt(65536)))

\* what a function hands back: a value, or an exception
Return(v) == [exc |-> "none", val |-> v]

Raise(e) == [exc |-> e, val |-> Zero]

\* lines 133-138; the division of line 134 raises when var1 is zero
PressureTail(c, var1, var2, adc_p) ==
    IF IsZero(var1) THEN Raise("ZeroDivisionError")
    ELSE LET p0 == FSub(FromInt(1048576), FromInt(adc_p))
             p == FDiv(FMul(FSub(p0, FDiv(var2, FromInt(4096))), FromInt(6250)),
                       var1)
             w1 == FDiv(FMul(FMul(FromInt(c.dig_P9), p), p), Pow2(31))
             w2 == FDiv(FMul(p, FromInt(c.dig_P8)), FromInt(32768))
         IN Return(FAdd(p, FDiv(FAdd(FAdd(w1, w2), FromInt(c.dig_P7)),
                                FromInt(16))))

\* _compensate_pressure without its guard
PressureGuardOff(var1) == FALSE

\* the guard of lines 131-132
PressureGuard(var1) == IsZero(var1)

\* _compensate_pressure
CompensatePressure(c, tf, adc_p) ==
    LET var1 == PressureVar1(c, tf)
        var2 == PressureVar2(c, tf)
    IN IF PressureGuard(var1) THEN Return(Zero)
       ELSE PressureTail(c, var1, var2, adc_p)

\* lines 141-145: the value before the clamp
HumidityRaw(c, tf, adc_h) ==
    LET h0 == FSub(FromInt(tf), FromInt(76800))
        a == FSub(FromInt(adc_h),
                  FAdd(FMul(FromInt(c.dig_H4), FromInt(64)),
                       FMul(FDiv(FromInt(c.dig_H5), FromInt(16384)), h0)))
        i == FAdd(FromInt(1),
                  FMul(FDiv(FromInt(c.dig_H3), FromInt(67108864)), h0))
        o == FAdd(FromInt(1),
                  FMul(FMul(FDiv(FromInt(c.dig_H6), FromInt(67108864)), h0), i))
        h1 == FMul(a, FMul(FDiv(FromInt(c.dig_H2), FromInt(65536)), o))
    IN FMul(h1, FSub(FromInt(1),
                     FDiv(FMul(FromInt(c.dig_H1), h1), FromInt(524288))))

\* the clamp without its lower branch
ClampUpperOnly(h) == IF FLess(FromInt(100), h) THEN FromInt(100) ELSE h

\* lines 146-150
Clamp(h) ==
    IF FLess(FromInt(100), h) THEN FromInt(100)
    ELSE IF FLess(h, Zero) THEN Zero
    ELSE h

\* _compensate_humidity
CompensateHumidity(c, tf, adc_h) == Clamp(HumidityRaw(c, tf, adc_h))

(***************************************************************************)
(* The BME280 object and its operations.  An operation runs on a frame:    *)
(* the object, the compensations run so far, the value to return and the   *)
(* exception raised ("none": none).                                        *)
(***************************************************************************)
\* __init__, lines 39-45: the fields before _read_calibration_data (line 47)
Fresh ==
    [cal |-> [dig_T1 |-> 0, dig_T2 |-> 0, dig_T3 |-> 0, dig_P1 |-> 0,
              dig_P2 |-> 0, dig_P3 |-> 0, dig_P4 |-> 0, dig_P5 |-> 0,
              dig_P6 |-> 0, dig_P7 |-> 0, dig_P8 |-> 0, dig_P9 |-> 0,
              dig_H1 |-> 0, dig_H2 |-> 0, dig_H3 |-> 0, dig_H4 |-> 0,
              dig_H5 |-> 0, dig_H6 |-> 0],
     calibrated |-> FALSE,
     osrs_h |-> 0, osrs_t |-> 0, osrs_p |-> 0, power_mode |-> 0,
     filter |-> 0, t_sb |-> 0,
     t_fine |-> 0,
     tfineOf |-> 0,
     temperature |-> Zero,
     pressure |-> Zero,
     humidity |-> Zero]

\* __init__, line 47 on
Constructed(b88, e1) ==
    [Fresh EXCEPT !.cal = ReadCalibrationData(b88, e1), !.calibrated = TRUE,
                  !.osrs_h = 1, !.osrs_t = 1, !.osrs_p = 1,
                  !.power_mode = 3, !.filter = 0, !.t_sb = 5]

\* the registers before any write, and as _set_hum, _set_meas and
\* _set_config write them
Unwritten == [ctrl_hum |-> 0, ctrl_meas |-> 0, config |-> 0]

SetMeasAndHumAndConfig(self) ==
    [ctrl_hum |-> BitOr(0, self.osrs_h),
     ctrl_meas |-> BitOr(BitOr(BitOr(0, ShiftL(self.osrs_t, 5)),
                               ShiftL(self.osrs_p, 2)),
                         self.power_mode),
     config |-> BitOr(BitOr(0, ShiftL(self.t_sb, 5)), ShiftL(self.filter, 2))]

NoCall == [op |-> "none", trace |-> <<>>, ret |-> Zero, exc |-> "none"]

Enter(self) == [self |-> self, trace |-> <<>>, ret |-> Zero, exc |-> "none"]

\* a call of _compensate_temperature(adc_t) on the raw sample sid
DoTemperature(f, r, sid) ==
    IF f.exc # "none" THEN f
    ELSE LET t == CompensateTemperature(f.self.cal, r.adc_t)
         IN [self |-> [f.self EXCEPT !.t_fine = t.t_fine, !.tfineOf = sid],
             trace |-> Append(f.trace,
                              [fn |-> "temperature", adc |-> r.adc_t,
                               sample |-> sid, tf |-> t.t_fine, tsrc |-> sid,
                               exc |-> "none", val |-> t.temp]),
             ret |-> t.temp,
             exc |-> "none"]

\* a call of _compensate_pressure(adc_p) on the raw sample sid
DoPressure(f, r, sid) ==
    IF f.exc # "none" THEN f
    ELSE LET res == CompensatePressure(f.self.cal, f.self.t_fine, r.adc_p)
         IN [f EXCEPT !.trace = Append(@, [fn |-> "pressure", adc |-> r.adc_p,
                                           sample |-> sid,
                                           tf |-> f.self.t_fine,
                                           tsrc |-> f.self.tfineOf,
                                           exc |-> res.exc, val |-> res.val]),
                      !.ret = res.val,
                      !.exc = res.exc]

\* a call of _compensate_humidity(adc_h) on the raw sample sid
DoHumidity(f, r, sid) ==
    IF f.exc # "none" THEN f
    ELSE LET h == CompensateHumidity(f.self.cal, f.self.t_fine, r.adc_h)
         IN [f EXCEPT !.trace = Append(@, [fn |-> "humidity", adc |-> r.adc_h,
                                           sample |-> sid,
                                           tf |-> f.self.t_fine,
                                           tsrc |-> f.self.tfineOf,
                                           exc |-> "none", val |-> h]),
                      !.ret = h]

\* self._<field> = <the value just computed>
Store(f, field) ==
    IF f.exc # "none" THEN f ELSE [f EXCEPT !.self[field] = f.ret]

read_temperature(self, b, sid) ==
    DoTemperature(Enter(self), ReadRawSensorData(b), sid)

\* read_pressure without its call of _compensate_temperature
read_pressure_stale(self, b, sid) ==
    DoPressure(Enter(self), ReadRawSensorData(b), sid)

read_pressure(self, b, sid) ==
    LET r == ReadRawSensorData(b)
    IN DoPressure(DoTemperature(Enter(self), r, sid), r, sid)

read_humidity(self, b, sid) ==
    LET r == ReadRawSensorData(b)
    IN DoHumidity(DoTemperature(Enter(self), r, sid), r, sid)

measure(self, b, sid) ==
    LET r == ReadRawSensorData(b)
        f1 == Store(DoTemperature(Enter(self), r, sid), "temperature")
        f2 == Store(DoPressure(f1, r, sid), "pressure")
        f3 == Store(DoHumidity(f2, r, sid), "humidity")
    IN IF f3.exc # "none" THEN f3
       ELSE [f3 EXCEPT !.ret = [temperature |-> f3.self.temperature,
                                humidity |-> f3.self.humidity,
                                pressure |-> f3.self.pressure]]

\* the calibration registers of the devices tried
ImageA ==
    [b88 |-> <<0, 0, 0, 64, 0, 0, 0, 128, 0, 0, 0, 0, 0, 0, 0, 0, 0, 0, 16, 0,
               0, 64, 0, 64, 0, 0>>,
     e1 |-> <<0, 2, 128, 0, 0, 0, 0>>]

ImageB ==
    [b88 |-> <<0, 0, 0, 96, 0, 0, 0, 128, 0, 128, 0, 0, 1, 0, 0, 0, 0, 0, 0, 0,
               0, 0, 0, 0, 0, 0>>,
     e1 |-> <<0, 2, 0, 4, 0, 1, 64>>]

ImageC ==
    [b88 |-> <<0, 0, 0, 64, 0, 0, 0, 0, 0, 0, 0, 0, 0, 0, 0, 0, 0, 0, 0, 0,
               0, 0, 0, 0, 0, 64>>,
     e1 |-> <<0, 2, 0, 0, 0, 0, 0>>]

ImageD ==
    [b88 |-> <<0, 0, 0, 64, 0, 0, 0, 64, 0, 0, 0, 0, 0, 0, 0, 32, 0, 0, 0, 0,
               0, 0, 0, 0, 0, 0>>,
     e1 |-> <<0, 254, 0, 0, 0, 0, 0>>]

CalImages == {ImageA, ImageB, ImageC, ImageD}

\* the bytes of registers 0xF7..0xFE at the samples tried
RawSamples ==
    {<<128, 0, 0, 31, 64, 0, 32, 0>>,
     <<0, 0, 0, 18, 192, 0, 0, 0>>,
     <<128, 0, 0, 191, 128, 0, 128, 0>>}

\* register contents tried by the calibration check: every field from the
\* bytes (lo, hi), the shared byte 0xE5 over its whole range
ByteSamples == {0, 1, 15, 16, 127, 128, 240, 255}

Pattern88(lo, hi) == [i \in 1..26 |-> IF i % 2 = 1 THEN lo ELSE hi]

PatternE1(a, b, c) == <<a, b, c, a, b, c, a>>

\* the caller's result and the object's new state
Finish(f, name) ==
    /\ bme' = f.self
    /\ call' = [op |-> name, trace |-> f.trace, ret |-> f.ret, exc |-> f.exc]

\* BME280(i2c_ctrl, addr)
Construct ==
    /\ ~bme.calibrated
    /\ bme' = Constructed(dev88, devE1)
    /\ devCfg' = SetMeasAndHumAndConfig(bme')
    /\ call' = [NoCall EXCEPT !.op = "__init__"]
    /\ UNCHANGED <<dev88, devE1, samples, schedVars>>

ReadTemperature ==
    /\ bme.calibrated
    /\ samples < MaxSamples
    /\ \E b \in RawSamples :
          Finish(read_temperature(bme, b, samples + 1), "read_temperature")
    /\ samples' = samples + 1
    /\ UNCHANGED <<dev88, devE1, devCfg, schedVars>>

ReadPressure ==
    /\ bme.calibrated
    /\ samples < MaxSamples
    /\ \E b \in RawSamples :
          Finish(read_pressure(bme, b, samples + 1), "read_pressure")
    /\ samples' = samples + 1
    /\ UNCHANGED <<dev88, devE1, devCfg, schedVars>>

ReadHumidity ==
    /\ bme.calibrated
    /\ samples < MaxSamples
    /\ \E b \in RawSamples :
          Finish(read_humidity(bme, b, samples + 1), "read_humidity")
    /\ samples' = samples + 1
    /\ UNCHANGED <<dev88, devE1, devCfg, schedVars>>

Measure ==
    /\ bme.calibrated
    /\ samples < MaxSamples
    /\ \E b \in RawSamples :
          Finish(measure(bme, b, samples + 1), "measure")
    /\ samples' = samples + 1
    /\ UNCHANGED <<dev88, devE1, devCfg, schedVars>>

\* temperature(), pressure(), humidity(): the stored values
Temperature ==
    /\ bme.calibrated
    /\ call' = [NoCall EXCEPT !.op = "temperature", !.ret = bme.temperature]
    /\ UNCHANGED <<dev88, devE1, devCfg, bme, samples, schedVars>>

Pressure ==
    /\ bme.calibrated
    /\ call' = [NoCall EXCEPT !.op = "pressure", !.ret = bme.pressure]
    /\ UNCHANGED <<dev88, devE1, devCfg, bme, samples, schedVars>>

Humidity ==
    /\ bme.calibrated
    /\ call' = [NoCall EXCEPT !.op = "humidity", !.ret = bme.humidity]
    /\ UNCHANGED <<dev88, devE1, devCfg, bme, samples, schedVars>>

\* a caller reads a raw sample and calls one compensation function itself
CallCompensateTemperature ==
    /\ bme.calibrated
    /\ samples < MaxSamples
    /\ \E b \in RawSamples :
          Finish(DoTemperature(Enter(bme), ReadRawSensorData(b), samples + 1),
                 "_compensate_temperature")
    /\ samples' = samples + 1
    /\ UNCHANGED <<dev88, devE1, devCfg, schedVars>>

CallCompensatePressure ==
    /\ bme.calibrated
    /\ samples < MaxSamples
    /\ \E b \in RawSamples :
          Finish(DoPressure(Enter(bme), ReadRawSensorData(b), samples + 1),
                 "_compensate_pressure")
    /\ samples' = samples + 1
    /\ UNCHANGED <<dev88, devE1, devCfg, schedVars>>

CallCompensateHumidity ==
    /\ bme.calibrated
    /\ samples < MaxSamples
    /\ \E b \in RawSamples :
          Finish(DoHumidity(Enter(bme), ReadRawSensorData(b), samples + 1),
                 "_compensate_humidity")
    /\ samples' = samples + 1
    /\ UNCHANGED <<dev88, devE1, devCfg, schedVars>>

(***************************************************************************)
(* Application / SenlibCLI / SensorNode                                    *)
(***************************************************************************)
\* args.poll: Application.__init__ sets -1 when the parser has no --poll
\* (SensorNode); SenlibCLI takes any int, 1 by default.
Unbounded == 0 - 1

PollValues == {Unbounded} \cup (1..MaxPoll)

\* number of read_i2c_block_data calls of one _read_raw_sensor_data
RawBlocks == 3

Last(s) == s[Len(s)]

InitApp ==
    /\ \/ /\ app = "cli"
          /\ poll \in PollValues
          /\ webserver = "none"
          /\ publisher = "none"
       \/ /\ app = "node"
          /\ poll = Unbounded
          /\ webserver \in {"ok", "raise"}
          /\ publisher \in {"none", "ok", "raise"}
    /\ loop = "Idle"
    /\ ready = <<>>
    /\ pc = "none"
    /\ num = 0
    /\ busReads = 0
    /\ started = 0
    /\ acquired = <<>>
    /\ handed = <<>>
    /\ printed = <<>>
    /\ webGot = <<>>
    /\ mqttGot = <<>>
    /\ failed = 0
    /\ sinkFailed = 0
    /\ reported = 0
    /\ doneCycles = 0
    /\ stoppedBy = "none"
    /\ afterStop = FALSE
    /\ dev88 = ImageA.b88
    /\ devE1 = ImageA.e1
    /\ bme = Constructed(dev88, devE1)
    /\ devCfg = SetMeasAndHumAndConfig(bme)
    /\ samples = 0
    /\ call = NoCall

\* loop.call_soon(callback, 1) / loop.call_later(interval, callback, num+1)
CallSoon(q, n) == Append(q, n)

\* a callback that arms its successor twice
CallLaterTwice(q, n) == Append(Append(q, n + 1), n + 1)

CallLater(q, n) == Append(q, n + 1)

\* Application.run: _before_start, _start (call_soon(callback, 1)), run_forever
Run ==
    /\ loop = "Idle"
    /\ loop' = "Running"
    /\ ready' = CallSoon(ready, 1)
    /\ UNCHANGED <<drvVars, app, poll, webserver, publisher, pc, num, busReads, started,
                   acquired, handed, printed, webGot, mqttGot, failed,
                   sinkFailed, reported, doneCycles, stoppedBy, afterStop>>

\* the loop runs the next scheduled handle: callback(num) enters measure()
CallbackBegin ==
    /\ loop = "Running"
    /\ pc = "none"
    /\ ready # <<>>
    /\ Head(ready) <= MaxCycles
    /\ num' = Head(ready)
    /\ ready' = Tail(ready)
    /\ pc' = "measure"
    /\ busReads' = 0
    /\ started' = started + 1
    /\ UNCHANGED <<drvVars, app, poll, webserver, publisher, loop, acquired, handed,
                   printed, webGot, mqttGot, failed, sinkFailed, reported,
                   doneCycles, stoppedBy, afterStop>>

\* an exception leaves the callback: Handle._run passes it to the loop's
\* exception handler and the loop goes on running; nothing is re-armed
CallbackRaised ==
    /\ pc' = "none"
    /\ reported' = reported + 1
    /\ UNCHANGED <<drvVars, app, poll, webserver, publisher, loop, ready, num, busReads,
                   started, acquired, handed, printed, webGot, mqttGot,
                   doneCycles, stoppedBy, afterStop>>

\* one read_i2c_block_data of _read_raw_sensor_data returns
ReadBlockOk ==
    /\ pc = "measure"
    /\ busReads < RawBlocks
    /\ busReads' = busReads + 1
    /\ UNCHANGED <<drvVars, app, poll, webserver, publisher, loop, ready, pc, num,
                   started, acquired, handed, printed, webGot, mqttGot, failed,
                   sinkFailed, reported, doneCycles, stoppedBy, afterStop>>

\* one read_i2c_block_data raises (the bus error leaves measure())
ReadBlockRaise ==
    /\ pc = "measure"
    /\ busReads < RawBlocks
    /\ failed' = failed + 1
    /\ UNCHANGED sinkFailed
    /\ CallbackRaised

\* measure() compensates and returns the measurement (line 87)
MeasureReturn ==
    /\ pc = "measure"
    /\ busReads = RawBlocks
    /\ \E b \in RawSamples : Finish(measure(bme, b, samples + 1), "measure")
    /\ samples' = samples + 1
    /\ acquired' = Append(acquired, started)
    /\ pc' = "handle"
    /\ UNCHANGED <<dev88, devE1, devCfg, app, poll, webserver, publisher, loop, ready, num, busReads,
                   started, handed, printed, webGot, mqttGot, failed,
                   sinkFailed, reported, doneCycles, stoppedBy, afterStop>>

\* self._handle_data(sensor_data) is called (line 88)
HandleData ==
    /\ pc = "handle"
    /\ handed' = Append(handed, Last(acquired))
    /\ pc' = IF app = "cli" THEN "print" ELSE "broadcast"
    /\ UNCHANGED <<drvVars, app, poll, webserver, publisher, loop, ready, num, busReads,
                   started, acquired, printed, webGot, mqttGot, failed,
                   sinkFailed, reported, doneCycles, stoppedBy, afterStop>>

\* SenlibCLI._handle_data: _generate_output prints the measurement
GenerateOutput ==
    /\ pc = "print"
    /\ printed' = Append(printed, Last(handed))
    /\ pc' = "rearm"
    /\ UNCHANGED <<drvVars, app, poll, webserver, publisher, loop, ready, num, busReads,
                   started, acquired, handed, webGot, mqttGot, failed,
                   sinkFailed, reported, doneCycles, stoppedBy, afterStop>>

\* SensorNode._handle_data, first statement: self._webserver.broadcast(data)
Broadcast ==
    /\ pc = "broadcast"
    /\ IF webserver = "raise"
       THEN /\ sinkFailed' = sinkFailed + 1
            /\ UNCHANGED failed
            /\ CallbackRaised
       ELSE /\ webGot' = Append(webGot, Last(handed))
            /\ pc' = "publish"
            /\ UNCHANGED <<drvVars, app, poll, webserver, publisher, loop, ready, num,
                           busReads, started, acquired, handed, printed,
                           mqttGot, failed, sinkFailed, reported, doneCycles,
                           stoppedBy, afterStop>>

\* SensorNode._handle_data, second statement: self._publisher.publish(data)
Publish ==
    /\ pc = "publish"
    /\ IF publisher = "raise"
       THEN /\ sinkFailed' = sinkFailed + 1
            /\ UNCHANGED failed
            /\ CallbackRaised
       ELSE /\ mqttGot' = IF publisher = "ok"
                          THEN Append(mqttGot, Last(handed))
                          ELSE mqttGot
            /\ pc' = "rearm"
            /\ UNCHANGED <<drvVars, app, poll, webserver, publisher, loop, ready, num,
                           busReads, started, acquired, handed, printed,
                           webGot, failed, sinkFailed, reported, doneCycles,
                           stoppedBy, afterStop>>

\* the end of callback: re-arm with num+1, or stop the loop (lines 89-92);
\* a stopped loop returns from run_forever and _after_stop runs
Rearm ==
    /\ pc = "rearm"
    /\ pc' = "none"
    /\ doneCycles' = doneCycles + 1
    /\ IF num # poll
       THEN /\ ready' = CallLater(ready, num)
            /\ UNCHANGED <<loop, stoppedBy, afterStop>>
       ELSE /\ loop' = "Stopped"
            /\ stoppedBy' = "stop"
            /\ afterStop' = TRUE
            /\ UNCHANGED ready
    /\ UNCHANGED <<drvVars, app, poll, webserver, publisher, num, busReads, started,
                   acquired, handed, printed, webGot, mqttGot, failed,
                   sinkFailed, reported>>

\* KeyboardInterrupt is raised in the main thread, wherever it is, and leaves
\* run_forever through Application.run's except clause; _after_stop runs
KeyboardInterrupt ==
    /\ loop = "Running"
    /\ loop' = "Stopped"
    /\ stoppedBy' = "interrupt"
    /\ afterStop' = TRUE
    /\ pc' = "none"
    /\ UNCHANGED <<drvVars, app, poll, webserver, publisher, ready, num, busReads,
                   started, acquired, handed, printed, webGot, mqttGot, failed,
                   sinkFailed, reported, doneCycles>>

Init == InitApp

\* a BME280 on its own: a device, and the object not yet constructed
InitDevice ==
    /\ bme = Fresh
    /\ devCfg = Unwritten
    /\ samples = 0
    /\ call = NoCall
    /\ app = "none"
    /\ poll = Unbounded
    /\ webserver = "none"
    /\ publisher = "none"
    /\ loop = "Idle"
    /\ ready = <<>>
    /\ pc = "none"
    /\ num = 0
    /\ busReads = 0
    /\ started = 0
    /\ acquired = <<>>
    /\ handed = <<>>
    /\ printed = <<>>
    /\ webGot = <<>>
    /\ mqttGot = <<>>
    /\ failed = 0
    /\ sinkFailed = 0
    /\ reported = 0
    /\ doneCycles = 0
    /\ stoppedBy = "none"
    /\ afterStop = FALSE

InitDriver ==
    /\ \E img \in CalImages : dev88 = img.b88 /\ devE1 = img.e1
    /\ InitDevice

InitCal ==
    /\ \E lo \in ByteSamples, hi \in 0..255, c \in ByteSamples :
          /\ dev88 = Pattern88(lo, hi)
          /\ devE1 = PatternE1(lo, hi, c)
    /\ InitDevice

Next ==
    \/ Run
    \/ CallbackBegin
    \/ ReadBlockOk
    \/ ReadBlockRaise
    \/ MeasureReturn
    \/ HandleData
    \/ GenerateOutput
    \/ Broadcast
    \/ Publish
    \/ Rearm
    \/ KeyboardInterrupt

Spec == Init /\ [][Next]_vars

\* the public operations of a BME280
NextDriver ==
    \/ Construct
    \/ ReadTemperature
    \/ ReadPressure
    \/ ReadHumidity
    \/ Measure
    \/ Temperature
    \/ Pressure
    \/ Humidity

SpecDriver == InitDriver /\ [][NextDriver]_vars

\* the compensation functions called by themselves as well
NextDirect ==
    \/ Construct
    \/ ReadTemperature
    \/ ReadPressure
    \/ ReadHumidity
    \/ Measure
    \/ CallCompensateTemperature
    \/ CallCompensatePressure
    \/ CallCompensateHumidity

SpecDirect == InitDriver /\ [][NextDirect]_vars

\* construction alone, over the register contents of InitCal
NextCal == Construct

SpecCal == InitCal /\ [][NextCal]_vars

(***************************************************************************)
(* Properties                                                              *)
(***************************************************************************)
IsPrefix(s, t) == Len(s) <= Len(t) /\ s = SubSeq(t, 1, Len(s))

\* callbacks pending in the loop or running
Pending == Len(ready) + (IF pc = "none" THEN 0 ELSE 1)

\* entries of the last operation's trace made by the functions in fns
Ran(fns) == {i \in 1..Len(call.trace) : call.trace[i].fn \in fns}

InRange(h) == ~FLess(h, Zero) /\ ~FLess(FromInt(100), h)

\* v is the two's complement reading, at width w, of the unsigned value u
IsSigned(v, u, w) ==
    /\ v >= 0 - 2^(w - 1)
    /\ v <= 2^(w - 1) - 1
    /\ (v - u) % 2^w = 0

\* the unsigned 16-bit value at the k-th field of the block at 0x88
Word88(k) == dev88[2 * k - 1] + 256 * dev88[2 * k]

\* C1: with a finite cycle count N the loop runs exactly N cycles, failed or
\* delivered, and then stops: it never runs more than N, it stops by itself
\* only after N, and while it is running with no callback in progress and
\* fewer than N cycles behind it, the next cycle is armed.
C1_ExactlyNCyclesThenStopped ==
    poll \in 1..MaxPoll =>
        /\ started <= poll
        /\ (stoppedBy = "stop" => failed + sinkFailed + doneCycles = poll)
        /\ (loop = "Running" /\ pc = "none" => ready # <<>> /\ started < poll)

\* C2: a cycle whose measure() failed is reported and leaves the next
\* callback armed: the loop is never running with nothing armed after it.
C2_FailedCycleRearms ==
    /\ reported >= failed
    /\ (failed > 0 /\ loop = "Running" /\ pc = "none" => ready # <<>>)

\* C3: in SensorNode a failing sink neither keeps a measurement from the
\* healthy sink nor stops the scheduler: once a callback is over, a healthy
\* sink has received every measurement handed to _handle_data, and the
\* running loop has the next callback armed.
C3_SinkFailureIsolated ==
    (app = "node" /\ failed = 0 /\ pc = "none" /\ stoppedBy # "interrupt") =>
        /\ (webserver = "ok" => webGot = handed)
        /\ (publisher = "ok" => mqttGot = handed)
        /\ (loop = "Running" /\ started > 0 => ready # <<>>)

\* C4: with an unbounded cycle count a KeyboardInterrupt stops the loop only
\* between cycles: every cycle that started measure() has failed or has run
\* through its hand-off to the end of the callback.
C4_StopOnlyAtSchedulingBoundary ==
    (poll = Unbounded /\ stoppedBy = "interrupt") =>
        started = failed + sinkFailed + doneCycles

\* C5: every _compensate_pressure and _compensate_humidity run by a public
\* operation reads the t_fine that _compensate_temperature wrote, earlier in
\* the same operation, from the adc_t of the same raw sample: never the
\* initial t_fine and never the one of an earlier sample.
C5_TFineOfSameSample ==
    \A i \in Ran({"pressure", "humidity"}) :
        /\ call.trace[i].tsrc = call.trace[i].sample
        /\ call.trace[i].tsrc # 0
        /\ \E j \in 1..(i - 1) :
              /\ call.trace[j].fn = "temperature"
              /\ call.trace[j].sample = call.trace[i].sample
              /\ call.trace[j].tf = call.trace[i].tf

C5_Witness ==
    /\ call.op = "read_pressure"
    /\ samples >= 2
    /\ Ran({"pressure"}) # {}

\* C6: pressure or humidity compensation called with no temperature
\* compensation of the same raw sample before it fails with
\* CompensationError.
C6_StaleCompensationRaises ==
    \A i \in Ran({"pressure", "humidity"}) :
        call.trace[i].tsrc # call.trace[i].sample =>
            call.trace[i].exc = "CompensationError"

C8_CalibrationDecoding ==
    bme.calibrated =>
        LET c == bme.cal IN
        /\ c.dig_T1 = Word88(1)
        /\ IsSigned(c.dig_T2, Word88(2), 16)
        /\ IsSigned(c.dig_T3, Word88(3), 16)
        /\ c.dig_P1 = Word88(4)
        /\ IsSigned(c.dig_P2, Word88(5), 16)
        /\ IsSigned(c.dig_P3, Word88(6), 16)
        /\ IsSigned(c.dig_P4, Word88(7), 16)
        /\ IsSigned(c.dig_P5, Word88(8), 16)
        /\ IsSigned(c.dig_P6, Word88(9), 16)
        /\ IsSigned(c.dig_P7, Word88(10), 16)
        /\ IsSigned(c.dig_P8, Word88(11), 16)
        /\ IsSigned(c.dig_P9, Word88(12), 16)
        /\ c.dig_H1 = dev88[26]
        /\ IsSigned(c.dig_H2, devE1[1] + 256 * devE1[2], 16)
        /\ c.dig_H3 = devE1[3]
        /\ IsSigned(c.dig_H4, 16 * devE1[4] + (devE1[5] % 16), 12)
        /\ IsSigned(c.dig_H5, 16 * devE1[6] + (devE1[5] \div 16), 12)
        /\ IsSigned(c.dig_H6, devE1[7], 8)
        /\ (dev88[3] = 255 /\ dev88[4] = 255 => c.dig_T2 = 0 - 1)
        /\ (dev88[3] = 0 /\ dev88[4] = 128 => c.dig_T2 = 0 - 32768)

C8_Witness ==
    /\ bme.calibrated
    /\ dev88[3] = 0
    /\ dev88[4] = 128
    /\ bme.cal.dig_T2 = 0 - 32768
    /\ devE1[5] = 128
    /\ devE1[6] = 255
    /\ bme.cal.dig_H5 = 0 - 8

\* C9: every humidity compensation returns its raw value clamped to
\* [0, 100] (100 above, 0 below, the raw value between), and the humidity
\* that measure(), read_humidity() and humidity() return, and the one the
\* object stores, lie in [0, 100].
C9_HumidityClamped ==
    /\ \A i \in Ran({"humidity"}) :
          LET e == call.trace[i]
              raw == HumidityRaw(bme.cal, e.tf, e.adc)
          IN /\ InRange(e.val)
             /\ (FLess(FromInt(100), raw) => e.val = FromInt(100))
             /\ (FLess(raw, Zero) => e.val = Zero)
             /\ (InRange(raw) => e.val = raw)
    /\ InRange(bme.humidity)
    /\ (call.op \in {"read_humidity", "humidity"} => InRange(call.ret))
    /\ (call.op = "measure" => InRange(call.ret.humidity))

C9_Witness ==
    /\ call.op = "measure"
    /\ \E i \in Ran({"humidity"}) :
          FLess(FromInt(100),
                HumidityRaw(bme.cal, call.trace[i].tf, call.trace[i].adc))
    /\ call.ret.humidity = FromInt(100)

\* C10: pressure compensation never divides by zero: no call raises, and a
\* call whose normalization factor is zero returns exactly 0.
C10_NoDivisionByZero ==
    \A i \in Ran({"pressure"}) :
        /\ call.trace[i].exc = "none"
        /\ (IsZero(PressureVar1(bme.cal, call.trace[i].tf))
              => call.trace[i].val = Zero)

C10_Witness ==
    \E i \in Ran({"pressure"}) :
        /\ IsZero(PressureVar1(bme.cal, call.trace[i].tf))
        /\ bme.cal.dig_P1 # 0
        /\ call.trace[i].val = Zero

====
